---- MODULE Spec2Model ----
(***************************************************************************)
(* Model of the acceptor construction of Fsa.py (class Fsa): the ASG and   *)
(* CTC builders of Fsa.run, final-state merging and node renumbering.      *)
(*                                                                         *)
(* Representation.  A Python list is a TLA+ sequence; the Python index k   *)
(* is the TLA+ index k + 1.  An edge is the sequence                       *)
(*   <<from, to, label, weight>>        (the 4-tuples of ASG and CTC)      *)
(*   <<from, to, label, weight, pos>>   (the 5-element lists)              *)
(* A label is a tagged value, <<"int", i>> for a Python int and            *)
(* <<"str", s>> for a Python str; None is <<"None">>.  The weights 0. and  *)
(* 1. are the integers 0 and 1.                                            *)
(***************************************************************************)
EXTENDS Integers, Sequences, FiniteSets, TLC

VARIABLES fsa_type, lemma_orig, lemma, num_states, edges, final_states,
          asg_repetition, num_labels, label_conversion, pc, history,
          depth, allo_num_states, lexicon, state_tying, phon_dict, sort_idx

vars == <<fsa_type, lemma_orig, lemma, num_states, edges, final_states,
          asg_repetition, num_labels, label_conversion, pc, history,
          depth, allo_num_states, lexicon, state_tying, phon_dict, sort_idx>>

\* ---------------------------------------------------------------- bounds
MaxLen == 5
\* the longest frame-label string that is tried on a CTC graph
MaxFrames == 4
MaxRep == 2
SortNodes == 4
SortMaxEdges == 3
MergeNodes == 3
MergeMaxEdges == 2
MergeMaxFinal == 2
MaxWords == 2
MaxPhons == 3
MaxAllo == 3
LoopNodes == 3
LoopMaxEdges == 3

\* ---------------------------------------------------------------- values
PyInt(i) == <<"int", i>>
PyStr(s) == <<"str", s>>
None == <<"None">>
IsPyInt(v) == v[1] = "int"

_SIL == PyStr("_")
_EPS == PyStr("*")
label_blank == PyStr("blank")

\* the characters a label sequence is drawn from, and Python's ord() of them
Alphabet == {"a", "b", "*"}
ord(c) == CASE c = "a" -> 97 [] c = "b" -> 98 [] c = "*" -> 42

\* the values of num_labels a run is configured with (256 is the default)
NumLabelsDefault == 256
NumLabelsChoice == {98, NumLabelsDefault}

\* edge fields (Python edge[0] .. edge[4])
From(e) == e[1]
To(e) == e[2]
Label(e) == e[3]
Weight(e) == e[4]
Pos(e) == e[5]

\* all sequences over S of length lo..hi
SeqsOf(S, lo, hi) == UNION {[1..n -> S] : n \in lo..hi}

\* ------------------------------------------------- convert_label_seq_to_indices
\* TRUE iff no "Index of label exceeds number of labels" assertion fails
convert_ok(label_seq, nl) == \A k \in 1..Len(label_seq) : ord(label_seq[k]) < nl

convert_label_seq_to_indices(label_seq) ==
  [k \in 1..Len(label_seq) |-> PyInt(ord(label_seq[k]))]

\* the label sequence taken as it is (label_conversion off): a str per element
lemma_as_is(label_seq) == [k \in 1..Len(label_seq) |-> PyStr(label_seq[k])]

\* ------------------------------------------------- _check_for_repetitions_for_asg
\* one iteration of the for loop; st = [reps, rep_count, index_old]
asg_rep_step(st, index, R, nl) ==
  IF index = st.index_old
    THEN IF st.rep_count < R
           THEN [st EXCEPT !.rep_count = st.rep_count + 1, !.index_old = index]
           ELSE IF st.rep_count # 0
                  THEN [reps |-> Append(st.reps, PyInt(nl + st.rep_count)),
                        rep_count |-> 1, index_old |-> index]
                  ELSE [st EXCEPT !.index_old = index]
    ELSE [reps |-> IF st.rep_count # 0
                     THEN Append(Append(st.reps, PyInt(nl + st.rep_count)), index)
                     ELSE Append(st.reps, index),
          rep_count |-> 0, index_old |-> index]

RECURSIVE asg_rep_loop(_, _, _, _, _)
asg_rep_loop(lem, k, st, R, nl) ==
  IF k > Len(lem) THEN st
  ELSE asg_rep_loop(lem, k + 1, asg_rep_step(st, lem[k], R, nl), R, nl)

\* the folding without the asg_repetition == 0 pass-through of line 273
_check_for_repetitions_for_asg_always_loop(lem, R, nl) ==
  asg_rep_loop(lem, 1, [reps |-> <<>>, rep_count |-> 0, index_old |-> None],
               R, nl).reps

_check_for_repetitions_for_asg(lem, R, nl) ==
  IF R = 0 THEN lem
  ELSE asg_rep_loop(lem, 1, [reps |-> <<>>, rep_count |-> 0, index_old |-> None],
                    R, nl).reps

\* ------------------------------------------------- _create_states_from_label_for_asg
asg_edges(lem) == [k \in 1..Len(lem) |-> <<k - 1, k, lem[k], 1>>]

\* num_states without the + 1 of line 304
asg_num_states_len(lem) == Len(lem)

asg_num_states(lem) == Len(lem) + 1

\* ------------------------------------------------- _adds_loop_edges
\* Python indexes (as TLA+ indexes) of the edges entering state with a label
\* other than epsilon, in list order
edges_included(es, state) ==
  {k \in 1..Len(es) : To(es[k]) = state /\ Label(es[k]) # _EPS}

Min(S) == CHOOSE m \in S : \A o \in S : m <= o

\* edges[edges_included[0]][4], None when that raises
label_pos(es, state) ==
  IF edges_included(es, state) = {} THEN None
  ELSE IF Len(es[Min(edges_included(es, state))]) >= 5
         THEN Pos(es[Min(edges_included(es, state))])
         ELSE None

countloops_all(ftype, ns) == ns

countloops(ftype, ns) == IF ftype = "hmm" THEN ns - 1 ELSE ns

\* the loop over state in range(1, countloops); the result is the edge list and
\* ok = FALSE when edges_included[0] raised IndexError outside the try (the
\* loops of the states before it are already appended)
RECURSIVE loop_edges_from(_, _, _)
loop_edges_from(es, state, cl) ==
  IF state >= cl THEN [edges |-> es, ok |-> TRUE]
  ELSE IF edges_included(es, state) = {} THEN [edges |-> es, ok |-> FALSE]
  ELSE loop_edges_from(
         Append(es, <<state, state, Label(es[Min(edges_included(es, state))]),
                      0, label_pos(es, state)>>),
         state + 1, cl)

_adds_loop_edges(es, ftype, ns) == loop_edges_from(es, 1, countloops(ftype, ns))

\* ------------------------------------------------- _create_states_from_label_seq_for_ctc
\* Python's seq[i], a negative i counting from the end
PyAt(s, i) == IF i < 0 THEN s[Len(s) + i + 1] ELSE s[i + 1]

\* line 314 without the test: every position gets its direct edge
ctc_label_differs_always(lem, label_index) == TRUE

\* the test of line 314 at label_index
ctc_label_differs(lem, label_index) == PyAt(lem, label_index) # PyAt(lem, label_index - 1)

RECURSIVE ctc_label_loop(_, _, _)
ctc_label_loop(es, lem, label_index) ==
  IF label_index >= Len(lem) THEN es
  ELSE ctc_label_loop(
         IF ctc_label_differs(lem, label_index)
           THEN Append(es, <<2 * label_index, 2 * label_index + 2,
                             PyAt(lem, label_index), 1>>)
           ELSE es,
         lem, label_index + 1)

\* one more direct edge, from state 0 over every label but the last
_create_states_with_long_skip(es, lem) ==
  IF Len(lem) < 2 THEN ctc_label_loop(es, lem, 0)
  ELSE Append(ctc_label_loop(es, lem, 0), <<0, 2 * Len(lem), PyAt(lem, -1), 1>>)

_create_states_from_label_seq_for_ctc(es, lem) == ctc_label_loop(es, lem, 0)

\* ------------------------------------------------- _adds_blank_states_for_ctc
RECURSIVE ctc_blank_loop(_, _, _)
ctc_blank_loop(es, lem, label_index) ==
  IF label_index >= Len(lem) THEN es
  ELSE ctc_blank_loop(
         Append(Append(es, <<2 * label_index, 2 * label_index + 1, label_blank, 1>>),
                <<2 * label_index + 1, 2 * label_index + 2, PyAt(lem, label_index), 1>>),
         lem, label_index + 1)

\* label_blank_idx when the loop has ended: 0 when it never ran
ctc_label_blank_idx(lem) == IF Len(lem) = 0 THEN 0 ELSE 2 * (Len(lem) - 1) + 1

\* the result is [edges, final_states]
_adds_blank_states_for_ctc(es, fs, lem) ==
  [edges |-> ctc_blank_loop(es, lem, 0),
   final_states |-> Append(fs, ctc_label_blank_idx(lem) + 1)]

\* ------------------------------------------------- _adds_last_state_for_ctc
\* line 342 counting two new states instead of three
_adds_last_state_for_ctc_two(es, ns, fs, lem) ==
  IF Len(lem) = 0
    THEN [edges |-> Append(es, <<ns - 3, ns, label_blank, 1>>),
          num_states |-> ns, final_states |-> fs, ok |-> FALSE]
    ELSE [edges |-> es \o << <<ns - 3, ns, label_blank, 1>>,
                             <<ns, ns + 1, PyAt(lem, -1), 1>>,
                             <<ns + 1, ns + 2, label_blank, 1>> >>,
          num_states |-> ns + 2,
          final_states |-> Append(fs, ns + 2 - 1),
          ok |-> TRUE]

\* the result is [edges, num_states, final_states, ok]; ok = FALSE when
\* self.lemma[-1] raised IndexError, after the first edge was appended
_adds_last_state_for_ctc(es, ns, fs, lem) ==
  IF Len(lem) = 0
    THEN [edges |-> Append(es, <<ns - 3, ns, label_blank, 1>>),
          num_states |-> ns, final_states |-> fs, ok |-> FALSE]
    ELSE [edges |-> es \o << <<ns - 3, ns, label_blank, 1>>,
                             <<ns, ns + 1, PyAt(lem, -1), 1>>,
                             <<ns + 1, ns + 2, label_blank, 1>> >>,
          num_states |-> ns + 3,
          final_states |-> Append(fs, ns + 3 - 1),
          ok |-> TRUE]

\* ------------------------------------------------- _make_single_final_state
\* line 354 never taking the "nothing to change" branch
single_final_always_change(ns, fs) == FALSE

\* the test of line 354
single_final_nothing_to_change(ns, fs) == Len(fs) = 1 /\ fs[1] = ns - 1

\* line 359 leaving out the self-loops of fstate
edges_fstate_no_loops(es, fstate) ==
  {k \in 1..Len(es) : To(es[k]) = fstate /\ From(es[k]) # fstate}

\* Python indexes (as TLA+ indexes) of the edges ending at fstate, ascending
edges_fstate(es, fstate) == {k \in 1..Len(es) : To(es[k]) = fstate}

\* line 361 keeping the target of the copied edge
RECURSIVE merge_inner_keep_target(_, _, _, _)
merge_inner_keep_target(es, src, idxs, newfinal) ==
  IF idxs = {} THEN es
  ELSE merge_inner_keep_target(
         Append(es, <<From(src[Min(idxs)]), To(src[Min(idxs)]),
                      Label(src[Min(idxs)]), 1>>),
         src, idxs \ {Min(idxs)}, newfinal)

\* the inner loop over the indexes idxs, taken in ascending order; src is the
\* edge list as it was when edges_fstate was computed
RECURSIVE merge_inner(_, _, _, _)
merge_inner(es, src, idxs, newfinal) ==
  IF idxs = {} THEN es
  ELSE merge_inner(
         Append(es, <<From(src[Min(idxs)]), newfinal, Label(src[Min(idxs)]), 1>>),
         src, idxs \ {Min(idxs)}, newfinal)

\* the outer loop over final_states[f..]
RECURSIVE merge_outer(_, _, _, _)
merge_outer(es, fs, f, newfinal) ==
  IF f > Len(fs) THEN es
  ELSE merge_outer(merge_inner(es, es, edges_fstate(es, fs[f]), newfinal),
                   fs, f + 1, newfinal)

_make_single_final_state_no_copy(es, ns, fs) ==
  [edges |-> es, num_states |-> ns + 1]

\* the result is [edges, num_states]
_make_single_final_state(es, ns, fs) ==
  IF single_final_nothing_to_change(ns, fs)
    THEN [edges |-> es, num_states |-> ns]
    ELSE [edges |-> merge_outer(es, fs, 1, ns + 1 - 1), num_states |-> ns + 1]

\* ------------------------------------------------- _find_node_edges
\* node_dict: the Python edge indexes (as TLA+ indexes) that touch node, with
\* 0 = node at the start, 1 = node at the end, 2 = node at both
node_dict_keys(es, node) ==
  {k \in 1..Len(es) : From(es[k]) = node \/ To(es[k]) = node}

node_dict_value(es, node, k) ==
  IF From(es[k]) = node /\ To(es[k]) = node THEN 2
  ELSE IF To(es[k]) = node THEN 1
  ELSE 0

\* ------------------------------------------------- _sort_node_num
\* edges[edge_key][node_dict[edge_key]] = value, for every key of the dict of
\* node (the dict is computed on dict_es, the list before any replacement);
\* the value 2 addresses the label field of a self-loop edge
replace_node(es, dict_es, node, value) ==
  LET keys == node_dict_keys(dict_es, node)
  IN
  [k \in 1..Len(es) |->
     IF k \in keys
       THEN IF node_dict_value(dict_es, node, k) = 2
              THEN [es[k] EXCEPT ![3] = PyInt(value)]
              ELSE [es[k] EXCEPT ![node_dict_value(dict_es, node, k) + 1] = value]
       ELSE es[k]]

exchange_nodes_none(es, cur_edge_start, cur_edge_end) == es

\* lines 567-575: both dicts are computed first, then the start node number
\* is replaced, then the end node number
exchange_nodes(es, cur_edge_start, cur_edge_end) ==
  replace_node(replace_node(es, es, cur_edge_start, cur_edge_end),
               es, cur_edge_end, cur_edge_start)

\* idx after an exchange: idx = 0 (line 579) followed by idx += 1 (line 581)
idx_after_exchange == 0 + 1

\* the Python indices from idx on at which the while loop finds start > end
inverted_from(es, idx) ==
  {k \in idx..(Len(es) - 1) : From(es[k + 1]) > To(es[k + 1])}

\* the while loop from the Python index idx on: idx advances to the first
\* edge with start > end, the two node numbers are exchanged and the scan
\* starts again; the loop ends when no such edge is left from idx on
RECURSIVE sort_loop(_, _)
sort_loop(es, idx) ==
  IF inverted_from(es, idx) = {} THEN es
  ELSE LET cur_edge == es[Min(inverted_from(es, idx)) + 1]
       IN  sort_loop(exchange_nodes(es, From(cur_edge), To(cur_edge)),
                     idx_after_exchange)

_sort_node_num_skip(es) == es

_sort_node_num(es) == sort_loop(es, 0)

\* ================================================================ Fsa.run
\* the value of asg_repetition a CTC run is left with (set_params default)
AsgRepetitionDefault == 2

\* the graph as it is when a stage is entered, kept for every stage of a run
snapshot == [pc |-> pc, lemma |-> lemma, num_states |-> num_states,
             edges |-> edges, final_states |-> final_states]

\* the lemma of lines 143-146 and 161-164
run_lemma(label_seq, conv) ==
  IF conv THEN convert_label_seq_to_indices(label_seq) ELSE lemma_as_is(label_seq)

\* what set_params and the collaborators give a run
inputs == <<fsa_type, lemma_orig, asg_repetition, num_labels, label_conversion,
            depth, allo_num_states, lexicon, state_tying>>

params == <<inputs, phon_dict>>

\* the HMM fields as __init__ leaves them (lines 61-67)
DepthDefault == 6
AlloNumStatesDefault == 3

hmm_fields_unset ==
  /\ depth = DepthDefault
  /\ allo_num_states = AlloNumStatesDefault
  /\ lexicon = None
  /\ state_tying = None
  /\ phon_dict = <<>>

Init ==
  /\ fsa_type \in {"asg", "ctc"}
  /\ lemma_orig \in SeqsOf(Alphabet, 0, MaxLen)
  /\ lemma = None
  /\ num_states = 0
  /\ edges = <<>>
  /\ final_states = <<>>
  /\ asg_repetition \in (IF fsa_type = "asg" THEN 0..MaxRep ELSE {AsgRepetitionDefault})
  /\ num_labels \in NumLabelsChoice
  /\ label_conversion \in BOOLEAN
  /\ pc = "run"
  /\ history = <<>>
  /\ sort_idx = 0
  /\ hmm_fields_unset

\* a failed assertion or an uncaught exception ends the run
Abort ==
  /\ pc' = "error"
  /\ history' = Append(history, snapshot)

\* ---------------------------------------------------------------- ASG
\* lines 143-155
AsgBegin ==
  /\ pc = "run" /\ fsa_type = "asg"
  /\ IF label_conversion /\ ~convert_ok(lemma_orig, num_labels)
       THEN Abort /\ UNCHANGED <<lemma, edges>>
       ELSE /\ lemma' = run_lemma(lemma_orig, label_conversion)
            /\ edges' = <<>>
            /\ pc' = "asg_check"
            /\ history' = Append(history, snapshot)
  /\ UNCHANGED <<params, sort_idx, num_states, final_states>>

\* line 157
AsgCheckForRepetitions ==
  /\ pc = "asg_check"
  /\ lemma' = _check_for_repetitions_for_asg(lemma, asg_repetition, num_labels)
  /\ pc' = "asg_create"
  /\ history' = Append(history, snapshot)
  /\ UNCHANGED <<params, sort_idx, num_states, edges, final_states>>

\* line 158
AsgCreateStates ==
  /\ pc = "asg_create"
  /\ edges' = edges \o asg_edges(lemma)
  /\ num_states' = asg_num_states(lemma)
  /\ pc' = "asg_loops"
  /\ history' = Append(history, snapshot)
  /\ UNCHANGED <<params, sort_idx, lemma, final_states>>

\* line 159
AsgAddsLoopEdges ==
  /\ pc = "asg_loops"
  /\ edges' = _adds_loop_edges(edges, fsa_type, num_states).edges
  /\ pc' = IF _adds_loop_edges(edges, fsa_type, num_states).ok THEN "done" ELSE "error"
  /\ history' = Append(history, snapshot)
  /\ UNCHANGED <<params, sort_idx, lemma, num_states, final_states>>

\* ---------------------------------------------------------------- CTC
\* lines 161-172
CtcBegin ==
  /\ pc = "run" /\ fsa_type = "ctc"
  /\ IF label_conversion /\ ~convert_ok(lemma_orig, num_labels)
       THEN Abort /\ UNCHANGED <<lemma, edges, final_states, num_states>>
       ELSE /\ lemma' = run_lemma(lemma_orig, label_conversion)
            /\ edges' = <<>>
            /\ final_states' = <<>>
            /\ num_states' = 2 * (Len(lemma_orig) + 1) - 1
            /\ pc' = "ctc_create"
            /\ history' = Append(history, snapshot)
  /\ UNCHANGED <<params, sort_idx>>

\* line 175
CtcCreateStates ==
  /\ pc = "ctc_create"
  /\ edges' = _create_states_from_label_seq_for_ctc(edges, lemma)
  /\ pc' = "ctc_blank"
  /\ history' = Append(history, snapshot)
  /\ UNCHANGED <<params, sort_idx, lemma, num_states, final_states>>

\* line 178
CtcAddsBlankStates ==
  /\ pc = "ctc_blank"
  /\ edges' = _adds_blank_states_for_ctc(edges, final_states, lemma).edges
  /\ final_states' = _adds_blank_states_for_ctc(edges, final_states, lemma).final_states
  /\ pc' = "ctc_last"
  /\ history' = Append(history, snapshot)
  /\ UNCHANGED <<params, sort_idx, lemma, num_states>>

\* line 181
CtcAddsLastState ==
  /\ pc = "ctc_last"
  /\ edges' = _adds_last_state_for_ctc(edges, num_states, final_states, lemma).edges
  /\ num_states' = _adds_last_state_for_ctc(edges, num_states, final_states, lemma).num_states
  /\ final_states' =
       _adds_last_state_for_ctc(edges, num_states, final_states, lemma).final_states
  /\ pc' = IF _adds_last_state_for_ctc(edges, num_states, final_states, lemma).ok
             THEN "ctc_loops" ELSE "error"
  /\ history' = Append(history, snapshot)
  /\ UNCHANGED <<params, sort_idx, lemma>>

\* line 184
CtcAddsLoopEdges ==
  /\ pc = "ctc_loops"
  /\ edges' = _adds_loop_edges(edges, fsa_type, num_states).edges
  /\ pc' = IF _adds_loop_edges(edges, fsa_type, num_states).ok
             THEN "ctc_merge" ELSE "error"
  /\ history' = Append(history, snapshot)
  /\ UNCHANGED <<params, sort_idx, lemma, num_states, final_states>>

\* line 187
CtcMakeSingleFinalState ==
  /\ pc = "ctc_merge"
  /\ edges' = _make_single_final_state(edges, num_states, final_states).edges
  /\ num_states' = _make_single_final_state(edges, num_states, final_states).num_states
  /\ pc' = "done"
  /\ history' = Append(history, snapshot)
  /\ UNCHANGED <<params, sort_idx, lemma, final_states>>

Next ==
  \/ AsgBegin
  \/ AsgCheckForRepetitions
  \/ AsgCreateStates
  \/ AsgAddsLoopEdges
  \/ CtcBegin
  \/ CtcCreateStates
  \/ CtcAddsBlankStates
  \/ CtcAddsLastState
  \/ CtcAddsLoopEdges
  \/ CtcMakeSingleFinalState

Spec == Init /\ [][Next]_vars

\* ================================================================ _sort_node_num alone
\* The edge lists _sort_node_num is applied to: 5-element lists over the
\* nodes 0..SortNodes-1 whose edges other than self-loops form no cycle.
SortPhonemes == <<"a", "b", "c", "d", "e", "f">>

sort_edge(k, from, to) == <<from, to, PyStr(SortPhonemes[k]), 0, PyStr("")>>

SortPairs == (0..(SortNodes - 1)) \X (0..(SortNodes - 1))

SortInputs ==
  {[k \in 1..Len(ps) |-> sort_edge(k, ps[k][1], ps[k][2])] :
     ps \in SeqsOf(SortPairs, 0, SortMaxEdges)}

HasSelfLoop(es) == \E k \in 1..Len(es) : From(es[k]) = To(es[k])

\* the nodes reached from node a over one or more edges other than self-loops
RECURSIVE ReachSet(_, _, _)
ReachSet(es, frontier, seen) ==
  IF frontier = {} THEN seen
  ELSE ReachSet(es,
         {To(es[k]) : k \in {j \in 1..Len(es) :
                               From(es[j]) \in frontier /\ From(es[j]) # To(es[j])}}
           \ seen,
         seen \cup {To(es[k]) : k \in {j \in 1..Len(es) :
                               From(es[j]) \in frontier /\ From(es[j]) # To(es[j])}})

IsAcyclic(es) ==
  \A k \in 1..Len(es) : From(es[k]) \notin ReachSet(es, {From(es[k])}, {})

InitSort ==
  /\ fsa_type = "hmm"
  /\ lemma_orig = <<>>
  /\ lemma = None
  /\ num_states = SortNodes
  /\ edges \in {es \in SortInputs : IsAcyclic(es)}
  /\ final_states = <<>>
  /\ asg_repetition = AsgRepetitionDefault
  /\ num_labels = NumLabelsDefault
  /\ label_conversion = FALSE
  /\ pc = "sort"
  /\ history = <<>>
  /\ sort_idx = 0
  /\ hmm_fields_unset

\* self.edges = self._sort_node_num(self.edges)
SortNodeNum ==
  /\ pc = "sort"
  /\ edges' = _sort_node_num(edges)
  /\ pc' = "sorted"
  /\ history' = Append(history, snapshot)
  /\ UNCHANGED <<params, sort_idx, lemma, num_states, final_states>>

\* _sort_node_num applied to its own output
SortNodeNumAgain ==
  /\ pc = "sorted"
  /\ edges' = _sort_node_num(edges)
  /\ pc' = "sorted_twice"
  /\ history' = Append(history, snapshot)
  /\ UNCHANGED <<params, sort_idx, lemma, num_states, final_states>>

NextSort ==
  \/ SortNodeNum
  \/ SortNodeNumAgain

SpecSort == InitSort /\ [][NextSort]_vars

\* ================================================================ _make_single_final_state alone
\* The graphs _make_single_final_state is applied to: up to MergeNodes states,
\* up to MergeMaxEdges edges, a final-state list without repetition.
MergeLabels == {PyStr("a"), label_blank}

\* edges as the CTC stages leave them: 4-tuples of weight 1 between two
\* states and the self-loops of _adds_loop_edges
MergeEdges(ns) ==
  {IF from = to THEN <<from, to, l, 0, None>> ELSE <<from, to, l, 1>> :
     from \in 0..(ns - 1), to \in 0..(ns - 1), l \in MergeLabels}

IsInjective(s) == \A i, j \in 1..Len(s) : s[i] = s[j] => i = j

InitMerge ==
  /\ fsa_type = "ctc"
  /\ lemma_orig = <<>>
  /\ lemma = None
  /\ num_states \in 1..MergeNodes
  /\ edges \in SeqsOf(MergeEdges(num_states), 0, MergeMaxEdges)
  /\ final_states \in {fs \in SeqsOf(0..(num_states - 1), 0, MergeMaxFinal) :
                         IsInjective(fs)}
  /\ asg_repetition = AsgRepetitionDefault
  /\ num_labels = NumLabelsDefault
  /\ label_conversion = FALSE
  /\ pc = "merge"
  /\ history = <<>>
  /\ sort_idx = 0
  /\ hmm_fields_unset

MakeSingleFinalState ==
  /\ pc = "merge"
  /\ edges' = _make_single_final_state(edges, num_states, final_states).edges
  /\ num_states' = _make_single_final_state(edges, num_states, final_states).num_states
  /\ pc' = "merged"
  /\ history' = Append(history, snapshot)
  /\ UNCHANGED <<params, sort_idx, lemma, final_states>>

NextMerge == MakeSingleFinalState

SpecMerge == InitMerge /\ [][NextMerge]_vars

\* ================================================================ HMM stages
\* A pronunciation string ("a b c") is held as the list of its phonemes, what
\* split(" ") gives; the label of a pronunciation edge is PyPhon of that list.
PyPhon(phon_list) == <<"phon", phon_list>>
\* a Python list used as a label (triphone, allophone state)
PyList(elems) == <<"list", elems>>

IsSilOrEps(e) == Label(e) = _SIL \/ Label(e) = _EPS

\* ------------------------------------------------- _lemma_acceptor_for_hmm_fsa
lemma_word_edges_no_lead(words, word_idx) ==
  << <<2 * (word_idx + 1) - 1, 2 * (word_idx + 1), PyAt(words, word_idx), 0>>,
     <<2 * (word_idx + 1), 2 * (word_idx + 1) + 1, _SIL, 0>>,
     <<2 * (word_idx + 1), 2 * (word_idx + 1) + 1, _EPS, 0>> >>

\* the edges appended for word_idx (lines 384-392), in order
lemma_word_edges(words, word_idx) ==
  << <<2 * (word_idx + 1) - 1, 2 * (word_idx + 1), PyAt(words, word_idx), 0>> >>
  \o (IF word_idx = 0 THEN << <<0, 1, _SIL, 0>> >> ELSE <<>>)
  \o << <<2 * (word_idx + 1), 2 * (word_idx + 1) + 1, _SIL, 0>> >>
  \o (IF word_idx = 0 THEN << <<0, 1, _EPS, 0>> >> ELSE <<>>)
  \o << <<2 * (word_idx + 1), 2 * (word_idx + 1) + 1, _EPS, 0>> >>

lemma_word_states_two(word_idx) == 2

\* what the inner loop adds to num_states for word_idx (lines 390, 392)
lemma_word_states(word_idx) == IF word_idx = 0 THEN 4 ELSE 2

RECURSIVE lemma_acceptor_loop(_, _, _, _)
lemma_acceptor_loop(es, ns, words, word_idx) ==
  IF word_idx >= Len(words) THEN [edges |-> es, num_states |-> ns]
  ELSE lemma_acceptor_loop(es \o lemma_word_edges(words, word_idx),
                           ns + lemma_word_states(word_idx), words, word_idx + 1)

\* the result is [edges, num_states]
_lemma_acceptor_for_hmm_fsa(words) == lemma_acceptor_loop(<<>>, 0, words, 0)

\* ------------------------------------------------- _find_allo_seq_in_lex
\* the words of the lemma, as keys (the str of each label)
lemma_keys(lem) == {lem[k][2] : k \in 1..Len(lem)}

find_allo_seq_ok(lem, lex) == \A w \in lemma_keys(lem) : w \in DOMAIN lex

\* phon_dict: word -> list of [phon, score]
_find_allo_seq_in_lex(lem, lex) == [w \in lemma_keys(lem) |-> lex[w]]

\* phon_dict when the lookup of a word raises KeyError (line 426): the words
\* in front of the first one that the lexicon does not hold
find_allo_seq_failed(lem, lex) ==
  LET first_absent == Min({k \in 1..Len(lem) : lem[k][2] \notin DOMAIN lex})
  IN  [w \in {lem[k][2] : k \in 1..(first_absent - 1)} |-> lex[w]]

\* ------------------------------------------------- list.sort(key=lambda x: x[0])
\* Python's sort is stable: e goes behind every element whose start node is
\* not larger
RECURSIVE insert_by_start(_, _)
insert_by_start(sorted, e) ==
  IF sorted = <<>> THEN <<e>>
  ELSE IF From(sorted[Len(sorted)]) <= From(e) THEN Append(sorted, e)
  ELSE Append(insert_by_start(SubSeq(sorted, 1, Len(sorted) - 1), e),
              sorted[Len(sorted)])

RECURSIVE sort_by_start_from(_, _, _)
sort_by_start_from(sorted, es, k) ==
  IF k > Len(es) THEN sorted
  ELSE sort_by_start_from(insert_by_start(sorted, es[k]), es, k + 1)

sort_by_start(es) == sort_by_start_from(<<>>, es, 1)

\* ------------------------------------------------- _phoneme_acceptor_for_hmm_fsa
\* lines 444-456: every word edge becomes one edge per pronunciation
phon_variant_edges(edge, phon_current) ==
  [v \in 1..Len(phon_current) |->
     <<From(edge), To(edge), PyPhon(phon_current[v].phon), phon_current[v].score>>]

RECURSIVE phon_replace_loop(_, _, _, _)
phon_replace_loop(out, es, k, pd) ==
  IF k > Len(es) THEN out
  ELSE phon_replace_loop(
         IF ~IsSilOrEps(es[k])
           THEN out \o phon_variant_edges(es[k], pd[Label(es[k])[2]])
           ELSE Append(out, es[k]),
         es, k + 1, pd)

\* lines 512-546 for one edge: the edges it is split into, ns being
\* self.num_states when the edge is taken
phon_split_edge(edge, ns) ==
  IF ~IsSilOrEps(edge)
    THEN LET phon_seq == Label(edge)[2]
             phon_seq_len == Len(phon_seq)
         IN IF phon_seq_len = 1
              THEN << <<From(edge), To(edge), PyStr(phon_seq[1]), Weight(edge),
                        PyStr("if")>> >>
              ELSE [j \in 1..phon_seq_len |->
                      IF j = 1
                        THEN <<From(edge), ns, PyStr(phon_seq[j]), Weight(edge),
                               PyStr("i")>>
                        ELSE IF j = phon_seq_len
                          THEN <<ns + j - 2, To(edge), PyStr(phon_seq[j]), 0,
                                 PyStr("f")>>
                          ELSE <<ns + j - 2, ns + j - 1, PyStr(phon_seq[j]), 0,
                                 PyStr("")>>]
    ELSE << <<From(edge), To(edge), Label(edge), Weight(edge), PyStr("")>> >>

phon_split_states_none(edge) == 0

\* the interior states an edge takes (lines 527, 538)
phon_split_states(edge) ==
  IF ~IsSilOrEps(edge) THEN Len(Label(edge)[2]) - 1 ELSE 0

\* lines 510-547: self.edges is sorted again after every edge
RECURSIVE phon_split_loop(_, _, _, _)
phon_split_loop(out, ns, edges_tt, k) ==
  IF k > Len(edges_tt) THEN [edges |-> out, num_states |-> ns]
  ELSE phon_split_loop(sort_by_start(out \o phon_split_edge(edges_tt[k], ns)),
                       ns + phon_split_states(edges_tt[k]), edges_tt, k + 1)

\* the graph when line 549 is reached, before the node renumbering
phoneme_acceptor_unsorted(es, ns, pd) ==
  phon_split_loop(<<>>, ns, sort_by_start(phon_replace_loop(<<>>, es, 1, pd)), 1)

_phoneme_acceptor_not_renumbered(es, ns, pd) == phoneme_acceptor_unsorted(es, ns, pd)

\* the result is [edges, num_states]
_phoneme_acceptor_for_hmm_fsa(es, ns, pd) ==
  [edges |-> _sort_node_num(phoneme_acceptor_unsorted(es, ns, pd).edges),
   num_states |-> phoneme_acceptor_unsorted(es, ns, pd).num_states]

\* ------------------------------------------------- _find_prev_next_edge
\* prev_edge_cand_idx: the edges that end where cur_edge starts (pn_switch 0)
\* or start where cur_edge ends (pn_switch 1)
prev_edge_cand_idx(cur_edge, pn_switch, es) ==
  {k \in 1..Len(es) : cur_edge[pn_switch + 1] = es[k][(1 - pn_switch) + 1]}

\* FALSE when the assertion of line 655 fails
find_prev_next_ok(cur_edge, pn_switch, es) ==
  Cardinality(prev_edge_cand_idx(cur_edge, pn_switch, es)) > 1 =>
    \A k \in prev_edge_cand_idx(cur_edge, pn_switch, es) : IsSilOrEps(es[k])

find_prev_next_label_empty(cur_edge, pn_switch, es) == PyStr("")

\* pn_edge[2]: the label of the one candidate, '' otherwise
find_prev_next_label(cur_edge, pn_switch, es) ==
  IF Cardinality(prev_edge_cand_idx(cur_edge, pn_switch, es)) = 1
    THEN Label(es[Min(prev_edge_cand_idx(cur_edge, pn_switch, es))])
    ELSE PyStr("")

\* ------------------------------------------------- _triphone_acceptor_for_hmm_fsa
triphone_ok(es) ==
  \A k \in 1..Len(es) :
     ~IsSilOrEps(es[k]) =>
        find_prev_next_ok(es[k], 0, es) /\ find_prev_next_ok(es[k], 1, es)

triphone_edge(edge_t, es) ==
  IF IsSilOrEps(edge_t) THEN edge_t
  ELSE <<From(edge_t), To(edge_t),
         PyList(<<find_prev_next_label(edge_t, 0, es), Label(edge_t),
                  find_prev_next_label(edge_t, 1, es)>>),
         Weight(edge_t), Pos(edge_t)>>

_triphone_acceptor_for_hmm_fsa(es) == [k \in 1..Len(es) |-> triphone_edge(es[k], es)]

\* ------------------------------------------------- _allophone_state_acceptor_for_hmm_fsa
\* lines 685-703 for one edge, nso being num_states_output when it is taken:
\* the sub-edge of state and num_states_output after it
RECURSIVE allo_edge_loop(_, _, _, _, _)
allo_edge_loop(out, nso, edge_t, state, A) ==
  IF state >= A THEN [edges |-> out, num_states |-> nso]
  ELSE LET edge_label == PyList(Append(Label(edge_t)[2], PyInt(state)))
       IN IF state = 0
            THEN allo_edge_loop(
                   Append(out, <<From(edge_t), nso, edge_label, Weight(edge_t),
                                 Pos(edge_t)>>),
                   nso + 1, edge_t, state + 1, A)
            ELSE IF state = A - 1
              THEN allo_edge_loop(
                     Append(out, <<nso, To(edge_t), edge_label, Weight(edge_t),
                                   Pos(edge_t)>>),
                     nso + 1, edge_t, state + 1, A)
              ELSE allo_edge_loop(
                     Append(out, <<nso - 1, nso, edge_label, Weight(edge_t),
                                   Pos(edge_t)>>),
                     nso, edge_t, state + 1, A)

\* lines 679-703: an edge that is not sil/eps is dropped when allo_num_states
\* is 1 (the if of line 684 has no else)
RECURSIVE allo_loop(_, _, _, _, _)
allo_loop(out, nso, edges_t, k, A) ==
  IF k > Len(edges_t) THEN [edges |-> out, num_states |-> nso]
  ELSE IF IsSilOrEps(edges_t[k])
         THEN allo_loop(Append(out, edges_t[k]), nso, edges_t, k + 1, A)
  ELSE IF A > 1
         THEN allo_loop(allo_edge_loop(out, nso, edges_t[k], 0, A).edges,
                        allo_edge_loop(out, nso, edges_t[k], 0, A).num_states,
                        edges_t, k + 1, A)
  ELSE allo_loop(out, nso, edges_t, k + 1, A)

\* the graph when line 705 is reached, before the node renumbering
allophone_state_acceptor_unsorted(es, ns, A) == allo_loop(<<>>, ns, es, 1, A)

_allophone_state_acceptor_stale_num_states(es, ns, A) ==
  [edges |-> _sort_node_num(allophone_state_acceptor_unsorted(es, ns, A).edges),
   num_states |-> ns]

\* the result is [edges, num_states]
_allophone_state_acceptor_for_hmm_fsa(es, ns, A) ==
  [edges |-> _sort_node_num(allophone_state_acceptor_unsorted(es, ns, A).edges),
   num_states |-> allophone_state_acceptor_unsorted(es, ns, A).num_states]

\* ------------------------------------------------- _build_allo_syntax_for_mapping
\* a context phoneme, '#' for the empty one
allo_context(c) == IF c = PyStr("") THEN "#" ELSE c[2]

allo_start(label) ==
  IF label = _SIL THEN "[SILENCE]{#+#}"
  ELSE IF label = _EPS THEN "*"
  ELSE label[2][2][2] \o "{" \o allo_context(label[2][1]) \o "+"
         \o allo_context(label[2][3]) \o "}"

allo_middle_none(pos) == ""

allo_middle(pos) ==
  IF pos = PyStr("if") THEN "@i@f"
  ELSE IF pos = PyStr("i") THEN "@i"
  ELSE IF pos = PyStr("f") THEN "@f"
  ELSE ""

allo_end(label) ==
  IF label = _SIL THEN ".0"
  ELSE IF label = _EPS THEN ""
  ELSE "." \o ToString(label[2][4][2])

_build_allo_syntax_for_mapping(label, pos) ==
  allo_start(label) \o allo_middle(pos) \o allo_end(label)

\* ------------------------------------------------- _state_tying_for_hmm_fsa
\* FALSE when allo_map has no entry for the edge (KeyError, line 730)
tying_edge_ok(edge_t, allo_map) ==
  Label(edge_t) # _EPS =>
    _build_allo_syntax_for_mapping(Label(edge_t), Pos(edge_t)) \in DOMAIN allo_map

tying_edge(edge_t, allo_map, conv) ==
  <<From(edge_t), To(edge_t),
    IF conv
      THEN IF Label(edge_t) = _EPS THEN PyStr("*")
           ELSE PyInt(allo_map[_build_allo_syntax_for_mapping(Label(edge_t),
                                                              Pos(edge_t))])
      ELSE PyStr(_build_allo_syntax_for_mapping(Label(edge_t), Pos(edge_t))),
    Weight(edge_t)>>

\* the result is [edges, ok]; when a lookup fails the edges converted before
\* it are what self.edges holds
RECURSIVE tying_loop(_, _, _, _, _)
tying_loop(out, edges_t, k, allo_map, conv) ==
  IF k > Len(edges_t) THEN [edges |-> out, ok |-> TRUE]
  ELSE IF ~tying_edge_ok(edges_t[k], allo_map) THEN [edges |-> out, ok |-> FALSE]
  ELSE tying_loop(Append(out, tying_edge(edges_t[k], allo_map, conv)),
                  edges_t, k + 1, allo_map, conv)

_state_tying_reports_ok(es, allo_map, conv) ==
  [edges |-> tying_loop(<<>>, es, 1, allo_map, conv).edges, ok |-> TRUE]

_state_tying_for_hmm_fsa(es, allo_map, conv) == tying_loop(<<>>, es, 1, allo_map, conv)

\* ================================================================ Fsa.run, fsa_type hmm
\* The words of a run and the lexicon it loads: "u" is one phoneme, "v" is
\* two, "w" has a pronunciation of MaxPhons phonemes and a second one of one
\* phoneme; the score of a pronunciation is its rank.
HmmWords == {"u", "v", "w"}
HmmPhonemes == <<"a", "b", "c">>

pron_of_len(L) == [j \in 1..L |-> HmmPhonemes[((j - 1) % Len(HmmPhonemes)) + 1]]

LexiconFile ==
  [word \in HmmWords |->
     CASE word = "u" -> <<[phon |-> <<"a">>, score |-> 1]>>
       [] word = "v" -> <<[phon |-> <<"c", "a">>, score |-> 1]>>
       [] word = "w" -> <<[phon |-> pron_of_len(MaxPhons), score |-> 1],
                          [phon |-> <<"b">>, score |-> 2]>>]

\* The state-tying table: every allophone of a phoneme and a sub-state is
\* tied to one id whatever its context and position; silence has id 0.
AlloContexts == {"#"} \cup {HmmPhonemes[j] : j \in 1..Len(HmmPhonemes)}
AlloPositions == {"", "@i", "@f", "@i@f"}

\* the allophone names of the phonemes with the indices cs
AlloNamesOf(cs) ==
  {HmmPhonemes[c] \o "{" \o l \o "+" \o r \o "}" \o m \o "." \o ToString(st) :
     c \in cs, l \in AlloContexts, r \in AlloContexts,
     m \in AlloPositions, st \in 0..(MaxAllo - 1)}

AlloNames == AlloNamesOf(1..Len(HmmPhonemes))

tied_id(c, st) == 1 + (c - 1) * MaxAllo + st

StateTyingTable ==
  [n \in AlloNames \cup {"[SILENCE]{#+#}.0"} |->
     IF n = "[SILENCE]{#+#}.0" THEN 0
     ELSE CHOOSE id \in 1..(Len(HmmPhonemes) * MaxAllo) :
            \E c \in 1..Len(HmmPhonemes), l \in AlloContexts, r \in AlloContexts,
               m \in AlloPositions, st \in 0..(MaxAllo - 1) :
               /\ n = HmmPhonemes[c] \o "{" \o l \o "+" \o r \o "}" \o m \o "."
                        \o ToString(st)
               /\ id = tied_id(c, st)]

\* A lexicon that holds the word "u" only, and a state-tying table that holds
\* silence and the allophones of the first phoneme only.
LexiconChoice == {LexiconFile, [word \in {"u"} |-> LexiconFile[word]]}

StateTyingChoice ==
  {StateTyingTable,
   [n \in AlloNamesOf({1}) \cup {"[SILENCE]{#+#}.0"} |-> StateTyingTable[n]]}

\* num_labels as __init__ leaves it, and the depths a run can be asked for
NumLabelsInit == 27
DepthChoice == 1..DepthDefault

InitHmm ==
  /\ fsa_type = "hmm"
  /\ lemma_orig \in SeqsOf(HmmWords, 1, MaxWords)
  /\ lemma = None
  /\ num_states = 0
  /\ edges = <<>>
  /\ final_states = <<>>
  /\ asg_repetition = AsgRepetitionDefault
  /\ num_labels = NumLabelsInit
  /\ depth \in DepthChoice
  /\ allo_num_states \in (IF depth >= 4 THEN 1..MaxAllo ELSE {AlloNumStatesDefault})
  /\ label_conversion \in (IF depth >= 6 THEN BOOLEAN ELSE {FALSE})
  /\ lexicon \in (IF depth >= 2 THEN LexiconChoice ELSE {None})
  /\ state_tying \in (IF depth >= 6 THEN StateTyingChoice ELSE {None})
  /\ phon_dict = <<>>
  /\ pc = "run"
  /\ history = <<>>
  /\ sort_idx = 0

\* lines 193-195
HmmLemmaAcceptor ==
  /\ pc = "run" /\ fsa_type = "hmm" /\ depth >= 1
  /\ lemma' = lemma_as_is(lemma_orig)
  /\ edges' = _lemma_acceptor_for_hmm_fsa(lemma_as_is(lemma_orig)).edges
  /\ num_states' = _lemma_acceptor_for_hmm_fsa(lemma_as_is(lemma_orig)).num_states
  /\ pc' = "hmm_lemma"
  /\ history' = Append(history, snapshot)
  /\ UNCHANGED <<inputs, sort_idx, phon_dict, final_states>>

\* lines 200-205; a word the lexicon does not hold raises KeyError
HmmPhonemeAcceptor ==
  /\ pc = "hmm_lemma" /\ depth >= 2
  /\ IF find_allo_seq_ok(lemma, lexicon)
       THEN /\ phon_dict' = _find_allo_seq_in_lex(lemma, lexicon)
            /\ edges' = _phoneme_acceptor_for_hmm_fsa(
                          edges, num_states, _find_allo_seq_in_lex(lemma, lexicon)).edges
            /\ num_states' = _phoneme_acceptor_for_hmm_fsa(
                          edges, num_states, _find_allo_seq_in_lex(lemma, lexicon)).num_states
            /\ pc' = "hmm_phon"
            /\ history' = Append(history, snapshot)
       ELSE /\ Abort
            /\ phon_dict' = find_allo_seq_failed(lemma, lexicon)
            /\ UNCHANGED <<edges, num_states>>
  /\ UNCHANGED <<inputs, sort_idx, lemma, final_states>>

\* lines 206-208; a failed assertion of _find_prev_next_edge ends the run
HmmTriphoneAcceptor ==
  /\ pc = "hmm_phon" /\ depth >= 3
  /\ IF triphone_ok(edges)
       THEN /\ edges' = _triphone_acceptor_for_hmm_fsa(edges)
            /\ pc' = "hmm_tri"
            /\ history' = Append(history, snapshot)
       ELSE Abort /\ UNCHANGED edges
  /\ UNCHANGED <<inputs, sort_idx, phon_dict, lemma, num_states, final_states>>

\* lines 209-212
HmmAllophoneStateAcceptor ==
  /\ pc = "hmm_tri" /\ depth >= 4
  /\ edges' = _allophone_state_acceptor_for_hmm_fsa(edges, num_states,
                                                    allo_num_states).edges
  /\ num_states' = _allophone_state_acceptor_for_hmm_fsa(edges, num_states,
                                                         allo_num_states).num_states
  /\ pc' = "hmm_allo"
  /\ history' = Append(history, snapshot)
  /\ UNCHANGED <<inputs, sort_idx, phon_dict, lemma, final_states>>

\* lines 213-215
HmmAddsLoopEdges ==
  /\ pc = "hmm_allo" /\ depth >= 5
  /\ edges' = _adds_loop_edges(edges, fsa_type, num_states).edges
  /\ pc' = IF _adds_loop_edges(edges, fsa_type, num_states).ok
             THEN "hmm_loops" ELSE "error"
  /\ history' = Append(history, snapshot)
  /\ UNCHANGED <<inputs, sort_idx, phon_dict, lemma, num_states, final_states>>

\* lines 216-218
HmmStateTying ==
  /\ pc = "hmm_loops" /\ depth >= 6
  /\ edges' = _state_tying_for_hmm_fsa(edges, state_tying, label_conversion).edges
  /\ pc' = IF _state_tying_for_hmm_fsa(edges, state_tying, label_conversion).ok
             THEN "hmm_tied" ELSE "error"
  /\ history' = Append(history, snapshot)
  /\ UNCHANGED <<inputs, sort_idx, phon_dict, lemma, num_states, final_states>>

\* the depth at which a run that stands at pc has no stage left
last_stage_depth(p) ==
  CASE p = "hmm_lemma" -> {1} [] p = "hmm_phon" -> {2} [] p = "hmm_tri" -> {3}
    [] p = "hmm_allo" -> {4} [] p = "hmm_loops" -> {5} [] p = "hmm_tied" -> {6}
    [] OTHER -> {}

\* lines 219-220: run returns
HmmRunReturns ==
  /\ depth \in last_stage_depth(pc)
  /\ pc' = "done"
  /\ history' = Append(history, snapshot)
  /\ UNCHANGED <<inputs, sort_idx, phon_dict, lemma, num_states, edges, final_states>>

NextHmm ==
  \/ HmmLemmaAcceptor
  \/ HmmPhonemeAcceptor
  \/ HmmTriphoneAcceptor
  \/ HmmAllophoneStateAcceptor
  \/ HmmAddsLoopEdges
  \/ HmmStateTying
  \/ HmmRunReturns

SpecHmm == InitHmm /\ [][NextHmm]_vars

\* ================================================================ run, all three builders
\* Fsa.run dispatches on fsa_type (lines 142, 160, 188): the runs of the ASG,
\* the CTC and the HMM builder in one specification.
InitRun == Init \/ InitHmm

NextRun == Next \/ NextHmm

SpecRun == InitRun /\ [][NextRun]_vars

\* ================================================================ _sort_node_num, step by step
\* One action for each pass through the while loop of lines 561-581, on the
\* edge lists without self-loops and without cycles; history holds the list
\* the call was entered with.
InitSortSteps ==
  /\ fsa_type = "hmm"
  /\ lemma_orig = <<>>
  /\ lemma = None
  /\ num_states = SortNodes
  /\ edges \in {es \in SortInputs : IsAcyclic(es) /\ ~HasSelfLoop(es)}
  /\ final_states = <<>>
  /\ asg_repetition = AsgRepetitionDefault
  /\ num_labels = NumLabelsDefault
  /\ label_conversion = FALSE
  /\ pc = "sort_scan"
  /\ history = <<[pc |-> "sort", lemma |-> None, num_states |-> SortNodes,
                  edges |-> edges, final_states |-> <<>>]>>
  /\ sort_idx = 0
  /\ hmm_fields_unset

\* lines 561-566 and 581: the edge at idx has start <= end
SortStepAdvance ==
  /\ pc = "sort_scan"
  /\ sort_idx < Len(edges)
  /\ ~(From(edges[sort_idx + 1]) > To(edges[sort_idx + 1]))
  /\ sort_idx' = sort_idx + 1
  /\ UNCHANGED <<params, lemma, num_states, edges, final_states, pc, history>>

\* lines 561-581: the edge at idx has start > end
SortStepExchange ==
  /\ pc = "sort_scan"
  /\ sort_idx < Len(edges)
  /\ From(edges[sort_idx + 1]) > To(edges[sort_idx + 1])
  /\ edges' = exchange_nodes(edges, From(edges[sort_idx + 1]), To(edges[sort_idx + 1]))
  /\ sort_idx' = idx_after_exchange
  /\ UNCHANGED <<params, lemma, num_states, final_states, pc, history>>

\* lines 561 and 583: the scan is at the end of the list
SortStepReturn ==
  /\ pc = "sort_scan"
  /\ ~(sort_idx < Len(edges))
  /\ pc' = "sorted"
  /\ UNCHANGED <<params, lemma, num_states, edges, final_states, sort_idx, history>>

NextSortSteps ==
  \/ SortStepAdvance
  \/ SortStepExchange
  \/ SortStepReturn

\* the loop is sequential code: a pass that can be made is made
SpecSortSteps == InitSortSteps /\ [][NextSortSteps]_vars /\ WF_vars(NextSortSteps)

\* ================================================================ _adds_loop_edges alone
\* Graphs of num_states nodes whose edges lead forward: 4-tuples as the ASG
\* and CTC builders make them, lists with a position tag for HMM; the tag
\* tells the edges that leave node 0 from the others.
LoopLabels == {PyStr("a"), PyStr("b"), _EPS}

loop_input_edge(ftype, from, to, l) ==
  IF ftype = "hmm"
    THEN <<from, to, l, 0, IF from = 0 THEN PyStr("i") ELSE PyStr("")>>
    ELSE <<from, to, l, 1>>

LoopPairs(ns) == {p \in (0..(ns - 1)) \X (0..(ns - 1)) : p[1] < p[2]}

LoopInputs(ftype, ns) ==
  {[k \in 1..Len(ps) |-> loop_input_edge(ftype, ps[k][1][1], ps[k][1][2], ps[k][2])] :
     ps \in SeqsOf(LoopPairs(ns) \X LoopLabels, 0, LoopMaxEdges)}

InitLoops ==
  /\ fsa_type \in {"asg", "ctc", "hmm"}
  /\ lemma_orig = <<>>
  /\ lemma = None
  /\ num_states \in 2..LoopNodes
  /\ edges \in LoopInputs(fsa_type, num_states)
  /\ final_states = <<>>
  /\ asg_repetition = AsgRepetitionDefault
  /\ num_labels = NumLabelsDefault
  /\ label_conversion = FALSE
  /\ pc = "loops"
  /\ history = <<>>
  /\ sort_idx = 0
  /\ hmm_fields_unset

AddsLoopEdges ==
  /\ pc = "loops"
  /\ edges' = _adds_loop_edges(edges, fsa_type, num_states).edges
  /\ pc' = IF _adds_loop_edges(edges, fsa_type, num_states).ok THEN "looped" ELSE "error"
  /\ history' = Append(history, snapshot)
  /\ UNCHANGED <<params, sort_idx, lemma, num_states, final_states>>

NextLoops == AddsLoopEdges

SpecLoops == InitLoops /\ [][NextLoops]_vars

\* ================================================================ properties
\* the graph as it was when the last stage was entered
before == history[Len(history)]

\* the states of the graph with no outgoing edge other than a self-loop
StatesWithoutExit(es, ns) ==
  {st \in 0..(ns - 1) :
     ~\E k \in 1..Len(es) : From(es[k]) = st /\ To(es[k]) # st}

NoInvertedEdge(es) == \A k \in 1..Len(es) : From(es[k]) <= To(es[k])

\* C1: for a non-empty label sequence the graph of a completed ASG or CTC
\* run has from <= to on every edge, and num_states - 1 is the one state
\* with no outgoing edge other than a self-loop.
C1_CompletedGraphOrderedSingleFinal ==
  (pc = "done" /\ Len(lemma_orig) >= 1) =>
     /\ NoInvertedEdge(edges)
     /\ StatesWithoutExit(edges, num_states) = {num_states - 1}

C1_Witness ==
  /\ pc = "done" /\ fsa_type = "ctc" /\ Len(lemma_orig) >= 2
  /\ lemma_orig[1] = lemma_orig[2]
  /\ \E k \in 1..Len(edges) : From(edges[k]) = To(edges[k])
  /\ \E k \in 1..Len(edges) : To(edges[k]) = num_states - 1

\* C2: when _sort_node_num returns on an acyclic edge list without
\* self-loops, every edge of the returned list has from <= to.
C2_SortedListHasNoInversion ==
  (pc = "sorted" /\ IsAcyclic(history[1].edges) /\ ~HasSelfLoop(history[1].edges)) =>
     NoInvertedEdge(edges)

\* C3: on an acyclic edge list without self-loops, _sort_node_num applied to
\* its own output returns that output.
C3_SortIsIdempotent ==
  (pc = "sorted_twice" /\ IsAcyclic(history[1].edges)
     /\ ~HasSelfLoop(history[1].edges)) =>
     edges = history[2].edges

\* the indexes of the edges of es that end at a state of the list fs
EndingAtFinal(es, fs) ==
  {k \in 1..Len(es) : \E f \in 1..Len(fs) : To(es[k]) = fs[f]}

\* C4: when the final-state set is not the singleton {num_states - 1},
\* _make_single_final_state adds 1 to num_states, keeps every edge in place
\* and appends, for every edge ending at a final state, exactly one edge
\* with the same from and label that ends at the new state, and no other.
C4_MergeAddsOneStateAndOneCopyPerFinalEdge ==
  (pc = "merged"
     /\ ~(Len(final_states) = 1 /\ final_states[1] = before.num_states - 1)) =>
     /\ num_states = before.num_states + 1
     /\ Len(edges) = Len(before.edges)
                       + Cardinality(EndingAtFinal(before.edges, final_states))
     /\ SubSeq(edges, 1, Len(before.edges)) = before.edges
     /\ \A k \in (Len(before.edges) + 1)..Len(edges) : To(edges[k]) = num_states - 1
     /\ \A k \in EndingAtFinal(before.edges, final_states) :
          Cardinality({j \in (Len(before.edges) + 1)..Len(edges) :
                         /\ From(edges[j]) = From(before.edges[k])
                         /\ Label(edges[j]) = Label(before.edges[k])})
          = Cardinality({j \in EndingAtFinal(before.edges, final_states) :
                           /\ From(before.edges[j]) = From(before.edges[k])
                           /\ Label(before.edges[j]) = Label(before.edges[k])})

C4_Witness ==
  /\ pc = "merged" /\ Len(final_states) = 2
  /\ \A f \in 1..2 : final_states[f] # before.num_states - 1
  /\ \A f \in 1..2 : \E k \in 1..Len(before.edges) : To(before.edges[k]) = final_states[f]
  /\ Len(edges) = Len(before.edges) + 2

\* C5: when the final-state set is the singleton {num_states - 1},
\* _make_single_final_state leaves num_states, the edges and the final-state
\* set as they are.
C5_MergeNoOpOnSingleLastFinal ==
  (pc = "merged" /\ Len(before.final_states) = 1
     /\ before.final_states[1] = before.num_states - 1) =>
     /\ num_states = before.num_states
     /\ edges = before.edges
     /\ final_states = before.final_states

C5_Witness ==
  /\ pc = "merged" /\ Len(final_states) = 1
  /\ final_states[1] = before.num_states - 1
  /\ \E k \in 1..Len(before.edges) : To(before.edges[k]) = final_states[1]
  /\ num_states = before.num_states

\* the index of the last element of the maximal run of lem that starts at i
RECURSIVE RunEnd(_, _)
RunEnd(lem, i) ==
  IF i < Len(lem) /\ lem[i + 1] = lem[i] THEN RunEnd(lem, i + 1) ELSE i

\* r repeats as greedy chunks of at most R: R, R, ..., rest
RECURSIVE GreedyChunks(_, _, _)
GreedyChunks(r, R, nl) ==
  IF r = 0 THEN <<>>
  ELSE IF r > R THEN <<PyInt(nl + R)>> \o GreedyChunks(r - R, R, nl)
  ELSE <<PyInt(nl + r)>>

\* every maximal run from i on: the label once, then the chunks of its repeats
RECURSIVE FoldedRuns(_, _, _, _)
FoldedRuns(lem, i, R, nl) ==
  IF i > Len(lem) THEN <<>>
  ELSE <<lem[i]>> \o GreedyChunks(RunEnd(lem, i) - i, R, nl)
         \o FoldedRuns(lem, RunEnd(lem, i) + 1, R, nl)

\* C6: with asg_repetition = R >= 1 the folded sequence holds, for every
\* maximal run of a label and r >= 1 repeats (also a run that ends the
\* input), the label once and then num_labels + k chunks, greedy, summing to r.
C6_EveryRunFoldedToGreedyChunks ==
  (pc = "asg_create" /\ asg_repetition >= 1) =>
     lemma = FoldedRuns(before.lemma, 1, asg_repetition, num_labels)

\* C7: with asg_repetition = 0 the folding returns the label sequence as it
\* is, and no synthetic label (>= num_labels + 1) is in it.
C7_NoFoldingIsIdentity ==
  (pc = "asg_create" /\ asg_repetition = 0) =>
     /\ lemma = before.lemma
     /\ lemma = run_lemma(lemma_orig, label_conversion)
     /\ \A k \in 1..Len(lemma) : ~(IsPyInt(lemma[k]) /\ lemma[k][2] >= num_labels + 1)

C7_Witness ==
  /\ pc = "asg_create" /\ asg_repetition = 0
  /\ Len(lemma) >= 3 /\ lemma[1] = lemma[2] /\ lemma[2] # lemma[3]

\* C8: for a folded sequence of length n the linear chain has n + 1 states
\* and exactly the n edges (i, i+1, folded[i], 1.0), i = 0..n-1, in order.
C8_LinearChain ==
  pc = "asg_loops" =>
     /\ num_states = Len(lemma) + 1
     /\ Len(edges) = Len(lemma)
     /\ \A i \in 0..(Len(lemma) - 1) : edges[i + 1] = <<i, i + 1, lemma[i + 1], 1>>

C8_Witness ==
  /\ pc = "asg_loops" /\ Len(lemma) >= 3
  /\ \E k \in 1..Len(lemma) : IsPyInt(lemma[k]) /\ lemma[k][2] > num_labels
  /\ Len(edges) = Len(lemma)

\* C9: for n >= 1 labels the CTC builder has 2*(n+1) - 1 states before the
\* extension; the extension adds 3 states and the 3 edges blank, last label,
\* blank; the merge adds 1 state; the completed graph has 2n + 5 states.
C9_CtcStateCounts ==
  (fsa_type = "ctc" /\ Len(lemma_orig) >= 1) =>
     /\ pc \in {"ctc_create", "ctc_blank", "ctc_last"} =>
          num_states = 2 * (Len(lemma_orig) + 1) - 1
     /\ pc = "ctc_loops" =>
          /\ num_states = before.num_states + 3
          /\ Len(edges) = Len(before.edges) + 3
          /\ SubSeq(edges, 1, Len(before.edges)) = before.edges
          /\ Label(edges[Len(edges) - 2]) = label_blank
          /\ Label(edges[Len(edges) - 1]) = lemma[Len(lemma)]
          /\ Label(edges[Len(edges)]) = label_blank
     /\ pc = "done" =>
          /\ num_states = before.num_states + 1
          /\ num_states = 2 * Len(lemma_orig) + 5

C9_Witness ==
  /\ fsa_type = "ctc" /\ pc = "done" /\ Len(lemma_orig) = 3
  /\ num_states = 11

\* C10: for every position i >= 1 of the CTC label sequence the direct edge
\* (2i, 2i+2, label[i], 1.0) is in the graph if and only if label[i] differs
\* from label[i-1].
C10_SkipEdgeIffLabelDiffers ==
  (fsa_type = "ctc"
     /\ pc \in {"ctc_blank", "ctc_last", "ctc_loops", "ctc_merge", "done"}) =>
     \A i \in 1..(Len(lemma) - 1) :
        (\E k \in 1..Len(edges) : edges[k] = <<2 * i, 2 * i + 2, lemma[i + 1], 1>>)
          <=> (lemma[i + 1] # lemma[i])

C10_Witness ==
  /\ fsa_type = "ctc" /\ pc = "ctc_blank" /\ Len(lemma) >= 3
  /\ lemma[2] = lemma[1] /\ lemma[3] # lemma[2]
  /\ \E k \in 1..Len(edges) : edges[k] = <<4, 6, lemma[3], 1>>
  /\ ~\E k \in 1..Len(edges) : edges[k] = <<2, 4, lemma[2], 1>>

\* C11: for every non-empty label sequence the CTC graph holds the direct
\* edge (0, 2, label[0]); the first position has no predecessor.
C11_FirstLabelHasDirectEdge ==
  (fsa_type = "ctc" /\ Len(lemma_orig) >= 1
     /\ pc \in {"ctc_blank", "ctc_last", "ctc_loops", "ctc_merge", "done"}) =>
     \E k \in 1..Len(edges) : edges[k] = <<0, 2, lemma[1], 1>>

\* C12 as stated: at depth 1 the lemma acceptor of k >= 1 words yields
\* num_states = 2 * k + 1.
C12_LemmaStatesTwoKPlusOne ==
  (fsa_type = "hmm" /\ pc = "hmm_lemma" /\ Len(lemma_orig) >= 1) =>
     num_states = 2 * Len(lemma_orig) + 1

\* C12, amended: the lemma acceptor of k >= 1 words yields
\* num_states = 2 * k + 2, the number of the nodes 0 .. 2k+1 its edges use.
C12_LemmaStatesTwoKPlusTwo ==
  (fsa_type = "hmm" /\ pc = "hmm_lemma" /\ Len(lemma_orig) >= 1) =>
     /\ num_states = 2 * Len(lemma_orig) + 2
     /\ {From(edges[k]) : k \in 1..Len(edges)} \cup {To(edges[k]) : k \in 1..Len(edges)}
          = 0..(2 * Len(lemma_orig) + 1)

C12_Witness ==
  fsa_type = "hmm" /\ pc = "hmm_lemma" /\ depth = 1 /\ Len(lemma_orig) = 2
    /\ num_states = 6

\* the number of edges of es from node s to node e with label l
count_edges(es, s, e, l) ==
  Cardinality({k \in 1..Len(es) : From(es[k]) = s /\ To(es[k]) = e /\ Label(es[k]) = l})

\* the number of edges of es from node s to node e
count_between(es, s, e) ==
  Cardinality({k \in 1..Len(es) : From(es[k]) = s /\ To(es[k]) = e})

\* exactly one silence and one epsilon edge, and nothing else, from s to e
sil_eps_pair(es, s, e) ==
  /\ count_edges(es, s, e, _SIL) = 1
  /\ count_edges(es, s, e, _EPS) = 1
  /\ count_between(es, s, e) = 2

\* C13: the lemma acceptor of k >= 1 words gives one edge per word, word i
\* on (2i+1, 2i+2) with the word as label, one silence and one epsilon edge
\* on (0, 1) and on (2i+2, 2i+3) behind every word, 3k + 2 edges in all, every
\* weight 0.
C13_LemmaAcceptorShape ==
  (fsa_type = "hmm" /\ pc = "hmm_lemma" /\ Len(lemma_orig) >= 1) =>
     /\ Len(edges) = 3 * Len(lemma_orig) + 2
     /\ \A k \in 1..Len(edges) : Len(edges[k]) = 4 /\ Weight(edges[k]) = 0
     /\ sil_eps_pair(edges, 0, 1)
     /\ \A i \in 0..(Len(lemma_orig) - 1) :
          /\ count_edges(edges, 2 * i + 1, 2 * i + 2, PyStr(lemma_orig[i + 1])) = 1
          /\ count_between(edges, 2 * i + 1, 2 * i + 2) = 1
          /\ sil_eps_pair(edges, 2 * i + 2, 2 * i + 3)

C13_Witness ==
  fsa_type = "hmm" /\ pc = "hmm_lemma" /\ lemma_orig = <<"w", "u">> /\ Len(edges) = 8

\* the number of times node n is the start or the end of an edge of es
node_uses(es, n) ==
  Cardinality({k \in 1..Len(es) : From(es[k]) = n})
    + Cardinality({k \in 1..Len(es) : To(es[k]) = n})

\* the tag of phoneme j of a pronunciation of L phonemes
phon_tag(j, L) ==
  IF L = 1 THEN "if" ELSE IF j = 1 THEN "i" ELSE IF j = L THEN "f" ELSE ""

\* es holds the phonemes j.. of ph as a chain from node to e: every edge
\* carries its phoneme and tag, the first one the score sc and the others 0,
\* and every state between two edges of the chain is not a state of the
\* graph before (>= old_ns) and is used by these two edges only
RECURSIVE phon_chain(_, _, _, _, _, _, _)
phon_chain(es, node, e, ph, sc, j, old_ns) ==
  \E k \in 1..Len(es) :
     /\ From(es[k]) = node
     /\ Label(es[k]) = PyStr(ph[j])
     /\ Weight(es[k]) = (IF j = 1 THEN sc ELSE 0)
     /\ Pos(es[k]) = PyStr(phon_tag(j, Len(ph)))
     /\ IF j = Len(ph) THEN To(es[k]) = e
        ELSE /\ To(es[k]) >= old_ns
             /\ node_uses(es, To(es[k])) = 2
             /\ phon_chain(es, To(es[k]), e, ph, sc, j + 1, old_ns)

\* the number of phonemes of all pronunciations of a word
RECURSIVE phon_count(_, _)
phon_count(variants, v) ==
  IF v > Len(variants) THEN 0
  ELSE Len(variants[v].phon) + phon_count(variants, v + 1)

\* the number of edges the phoneme stage makes of the edges k.. of old_es
RECURSIVE phon_stage_count(_, _, _)
phon_stage_count(old_es, pd, k) ==
  IF k > Len(old_es) THEN 0
  ELSE (IF IsSilOrEps(old_es[k]) THEN 1 ELSE phon_count(pd[Label(old_es[k])[2]], 1))
         + phon_stage_count(old_es, pd, k + 1)

\* es is us with the node numbers renamed one to one, edge by edge
is_renaming(us, es) ==
  /\ Len(us) = Len(es)
  /\ \A k \in 1..Len(us) :
       /\ Len(us[k]) = Len(es[k])
       /\ \A f \in 3..Len(us[k]) : us[k][f] = es[k][f]
  /\ LET renamed == {<<From(us[k]), From(es[k])>> : k \in 1..Len(us)}
                      \cup {<<To(us[k]), To(es[k])>> : k \in 1..Len(us)}
     IN  \A p \in renamed, q \in renamed : (p[1] = q[1]) <=> (p[2] = q[2])

\* C14: in the phoneme stage every pronunciation of L phonemes of a word edge
\* (s, e) becomes a chain of L one-phoneme edges from s to e through L - 1
\* fresh states that no other edge uses, the score on the first edge and 0 on
\* the others, tagged 'if' (L = 1) or 'i', '', .., 'f'; silence and epsilon
\* edges keep label and weight; nothing else is made, and the stage leaves
\* this graph with its nodes renumbered.
C14_PhonemeChains ==
  (fsa_type = "hmm" /\ pc = "hmm_phon") =>
     LET old == before
         us == phoneme_acceptor_unsorted(old.edges, old.num_states, phon_dict).edges
     IN  /\ \A i \in 1..Len(old.edges) :
              IF IsSilOrEps(old.edges[i])
                THEN Cardinality({k \in 1..Len(us) :
                                    us[k] = Append(old.edges[i], PyStr(""))}) = 1
                ELSE \A v \in 1..Len(phon_dict[Label(old.edges[i])[2]]) :
                        LET variant == phon_dict[Label(old.edges[i])[2]][v]
                        IN  phon_chain(us, From(old.edges[i]), To(old.edges[i]),
                                       variant.phon, variant.score, 1, old.num_states)
         /\ Len(us) = phon_stage_count(old.edges, phon_dict, 1)
         /\ \A k \in 1..Len(us) : From(us[k]) < num_states /\ To(us[k]) < num_states
         /\ is_renaming(us, edges)

C14_Witness ==
  fsa_type = "hmm" /\ pc = "hmm_phon" /\ lemma_orig = <<"w", "v">>
    /\ num_states = before.num_states + 3
    /\ \E k \in 1..Len(edges) : Pos(edges[k]) = PyStr("if")

\* the indices of the edges of es that end (side 0) or start (side 1) at node n
edges_at(es, n, side) ==
  {j \in 1..Len(es) : (IF side = 0 THEN To(es[j]) ELSE From(es[j])) = n}

\* one silence and one epsilon edge, and no other edge
is_sil_eps_pair(es, idxs) ==
  /\ Cardinality(idxs) = 2
  /\ \E j \in idxs : Label(es[j]) = _SIL
  /\ \E j \in idxs : Label(es[j]) = _EPS

\* label c is the context that the neighbours idxs of an edge give it: the
\* phoneme of the single neighbour, or '' when they are a silence/epsilon pair
is_context(es, idxs, c) ==
  \/ /\ Cardinality(idxs) = 1
     /\ \A j \in idxs : ~IsSilOrEps(es[j]) /\ c = Label(es[j])
     /\ c # PyStr("")
  \/ /\ is_sil_eps_pair(es, idxs)
     /\ c = PyStr("")

\* C15: at depth >= 3 the triphone stage never fails its assertion; it gives
\* every edge that is not silence or epsilon the label (left, center, right),
\* center its phoneme, left / right the phoneme of the single edge ending at
\* its start node / starting at its end node, empty exactly when these
\* neighbours are a silence/epsilon pair; the number, order, end points,
\* weights and tags of the edges do not change.
C15_TriphoneContexts ==
  (fsa_type = "hmm") =>
     /\ (pc = "error" => before.pc # "hmm_phon")
     /\ (pc = "hmm_tri") =>
          LET old == before.edges
          IN  /\ Len(edges) = Len(old)
              /\ \A k \in 1..Len(old) :
                   IF IsSilOrEps(old[k]) THEN edges[k] = old[k]
                   ELSE /\ Len(edges[k]) = 5
                        /\ From(edges[k]) = From(old[k]) /\ To(edges[k]) = To(old[k])
                        /\ Weight(edges[k]) = Weight(old[k]) /\ Pos(edges[k]) = Pos(old[k])
                        /\ \E left, right \in {Label(old[j]) : j \in 1..Len(old)}
                                                \cup {PyStr("")} :
                             /\ Label(edges[k]) = PyList(<<left, Label(old[k]), right>>)
                             /\ is_context(old, edges_at(old, From(old[k]), 0), left)
                             /\ is_context(old, edges_at(old, To(old[k]), 1), right)

C15_Witness ==
  fsa_type = "hmm" /\ pc = "hmm_tri" /\ Len(lemma_orig) = 2
    /\ \E k \in 1..Len(edges) :
          Label(edges[k]) = PyList(<<PyStr("a"), PyStr("b"), PyStr("c")>>)
    /\ \E j \in 1..Len(edges) :
          Label(edges[j]) = PyList(<<PyStr(""), PyStr("b"), PyStr("")>>)

\* es holds the sub-states state.. of the triphone tri as a chain from node
\* to e, through states that the graph before did not have (>= old_ns) and
\* that only the two edges of the chain around them use
RECURSIVE allo_chain(_, _, _, _, _, _, _)
allo_chain(es, node, e, tri, state, A, old_ns) ==
  \E k \in 1..Len(es) :
     /\ From(es[k]) = node
     /\ Label(es[k]) = PyList(Append(tri[2], PyInt(state)))
     /\ IF state = A - 1 THEN To(es[k]) = e
        ELSE /\ To(es[k]) >= old_ns
             /\ node_uses(es, To(es[k])) = 2
             /\ allo_chain(es, To(es[k]), e, tri, state + 1, A, old_ns)

\* the edges of es that are neither silence nor epsilon
expanded_edges(es) == {k \in 1..Len(es) : ~IsSilOrEps(es[k])}

\* C16: for every allo_num_states = A >= 1 the allophone-state stage makes
\* of every edge (s, e) that is not silence or epsilon a connected chain of A
\* sub-edges from s to e with the sub-states 0 .. A-1 in order, through A - 1
\* fresh states, and num_states grows by A - 1 for every such edge (the graph
\* is then renumbered).
C16_AllophoneChains ==
  (fsa_type = "hmm" /\ pc = "hmm_allo") =>
     LET old == before
         A == allo_num_states
         us == allophone_state_acceptor_unsorted(old.edges, old.num_states, A).edges
     IN  /\ num_states = old.num_states + (A - 1) * Cardinality(expanded_edges(old.edges))
         /\ \A i \in expanded_edges(old.edges) :
              allo_chain(us, From(old.edges[i]), To(old.edges[i]), Label(old.edges[i]),
                         0, A, old.num_states)
         /\ is_renaming(us, edges)

\* the states that get a self-loop: all but state 0 and, for HMM, the state
\* num_states - 1
loop_states(ftype, ns) == IF ftype = "hmm" THEN 1..(ns - 2) ELSE 1..(ns - 1)

\* the edges of es that enter s with a label that is not epsilon
entering(es, s) == {k \in 1..Len(es) : To(es[k]) = s /\ Label(es[k]) # _EPS}

\* the position tag of an edge, null for an edge that has none
tag_of(e) == IF Len(e) >= 5 THEN e[5] ELSE None

\* C17: when every state that is not excluded has an incoming edge with a
\* label other than epsilon, self-loop insertion adds for each state s of
\* 1 .. num_states-1 (ASG, CTC) or 1 .. num_states-2 (HMM) exactly one edge
\* (s, s, label, 0, tag), label and tag those of the first edge of the list
\* that enters s with a label other than epsilon, adds nothing else, and
\* leaves num_states and the edges that were there as they were.
C17_OneLoopPerInnerState ==
  (pc \in {"looped", "error"} /\ before.pc = "loops"
     /\ \A s \in loop_states(fsa_type, before.num_states) :
           entering(before.edges, s) # {}) =>
     LET old == before.edges
         added == SubSeq(edges, Len(old) + 1, Len(edges))
     IN  /\ pc = "looped"
         /\ num_states = before.num_states
         /\ Len(edges) >= Len(old)
         /\ SubSeq(edges, 1, Len(old)) = old
         /\ Len(added) = Cardinality(loop_states(fsa_type, num_states))
         /\ \A s \in loop_states(fsa_type, num_states) :
              LET first == old[Min(entering(old, s))]
              IN  Cardinality({k \in 1..Len(added) :
                                 added[k] = <<s, s, Label(first), 0, tag_of(first)>>}) = 1

C17_Witness ==
  pc = "looped" /\ before.pc = "loops" /\ fsa_type = "hmm" /\ num_states = 3
    /\ Len(before.edges) = 3
    /\ Cardinality(entering(before.edges, 1)) = 2
    /\ Len(edges) = 4

\* C18: when a state that is not excluded has no incoming edge with a label
\* other than epsilon, self-loop insertion still completes and adds for that
\* state a self-loop with a null label.
C18_NullLabelLoop ==
  (pc \in {"looped", "error"} /\ before.pc = "loops") =>
     \A s \in loop_states(fsa_type, before.num_states) :
        entering(before.edges, s) = {} =>
           /\ pc = "looped"
           /\ \E k \in (Len(before.edges) + 1)..Len(edges) :
                 From(edges[k]) = s /\ To(edges[k]) = s /\ Label(edges[k]) = None

\* the canonical allophone string of an edge label and its position tag,
\* written out from its format center{left+right}@position.substate
canonical_context(c) == IF c = "" THEN "#" ELSE c

canonical_position(pos) ==
  CASE pos = PyStr("i") -> "@i"
    [] pos = PyStr("f") -> "@f"
    [] pos = PyStr("if") -> "@i@f"
    [] OTHER -> ""

canonical_string(label, pos) ==
  IF label = _SIL THEN "[SILENCE]{#+#}.0"
  ELSE IF label = _EPS THEN "*"
  ELSE LET left == label[2][1][2]
           center == label[2][2][2]
           right == label[2][3][2]
           substate == label[2][4][2]
       IN  center \o "{" \o canonical_context(left) \o "+" \o canonical_context(right)
             \o "}" \o canonical_position(pos) \o "." \o ToString(substate)

\* C19: state tying gives every edge the label that belongs to its canonical
\* string, a function of label and position tag alone: '[SILENCE]{#+#}.0' for
\* silence, '*' for epsilon, else center{left+right} with '#' for an empty
\* context, '@i', '@f' or '@i@f' for the tag and '.substate'; edges with the
\* same canonical string get the same tied-state id; the number, order, end
\* points and weights of the edges do not change.
C19_StateTyingCanonical ==
  (fsa_type = "hmm" /\ pc = "hmm_tied") =>
     LET old == before.edges
     IN  /\ Len(edges) = Len(old)
         /\ \A k \in 1..Len(old) :
              /\ From(edges[k]) = From(old[k]) /\ To(edges[k]) = To(old[k])
              /\ Weight(edges[k]) = Weight(old[k])
              /\ Label(edges[k]) =
                   (IF ~label_conversion
                      THEN PyStr(canonical_string(Label(old[k]), Pos(old[k])))
                      ELSE IF Label(old[k]) = _EPS THEN PyStr("*")
                      ELSE PyInt(state_tying[canonical_string(Label(old[k]), Pos(old[k]))]))
         /\ \A j, k \in 1..Len(old) :
              canonical_string(Label(old[j]), Pos(old[j]))
                 = canonical_string(Label(old[k]), Pos(old[k]))
                => Label(edges[j]) = Label(edges[k])

C19_Witness ==
  /\ fsa_type = "hmm" /\ pc = "hmm_tied" /\ label_conversion
  /\ \E j, k \in 1..Len(edges) :
        /\ j # k
        /\ IsPyInt(Label(edges[j]))
        /\ ~IsSilOrEps(before.edges[j])
        /\ canonical_string(Label(before.edges[j]), Pos(before.edges[j]))
             = canonical_string(Label(before.edges[k]), Pos(before.edges[k]))
  /\ \E s \in 1..Len(edges) : before.edges[s][3] = _SIL /\ Label(edges[s]) = PyInt(0)
  /\ \E e \in 1..Len(edges) : before.edges[e][3] = _EPS

\* C20: after the phoneme stage and after the allophone-state stage, the two
\* HMM stages that end with the node renumbering, every edge leads from a
\* node to a node that is not smaller, whatever the words and allo_num_states.
C20_HmmStagesLeaveNoInversion ==
  (fsa_type = "hmm" /\ pc \in {"hmm_phon", "hmm_allo"}) =>
     \A k \in 1..Len(edges) : From(edges[k]) <= To(edges[k])

\* an allophone-state stage whose renumbering had an edge to turn round
C20_Witness ==
  /\ fsa_type = "hmm" /\ pc = "hmm_allo" /\ Len(lemma_orig) = 2
  /\ \E k \in 1..Len(edges) :
        LET us == allophone_state_acceptor_unsorted(before.edges, before.num_states,
                                                    allo_num_states).edges
        IN  From(us[k]) > To(us[k]) /\ From(edges[k]) <= To(edges[k])

\* the states of 0 .. ns-1 that no edge of es enters
states_without_entry(es, ns) ==
  {s \in 0..(ns - 1) : \A k \in 1..Len(es) : To(es[k]) # s}

\* the states of 0 .. ns-1 that no edge of es other than a self-loop leaves
states_without_way_out(es, ns) ==
  {s \in 0..(ns - 1) : \A k \in 1..Len(es) : From(es[k]) = s => To(es[k]) = s}

\* C21: with allo_num_states = 3, after a completed HMM run of depth 1 .. 6
\* state 0 is the only state that no edge enters and state num_states - 1 is
\* the only state that no edge other than a self-loop leaves.
C21_HmmUniqueStartAndFinal ==
  (fsa_type = "hmm" /\ pc = "done" /\ allo_num_states = 3) =>
     /\ states_without_entry(edges, num_states) = {0}
     /\ states_without_way_out(edges, num_states) = {num_states - 1}

C21_Witness ==
  fsa_type = "hmm" /\ pc = "done" /\ allo_num_states = 3 /\ depth = 6
    /\ lemma_orig = <<"w", "v">> /\ num_states > 6

\* C22: the ASG builder and the CTC builder reject an empty label sequence:
\* the run ends in an error and reports no graph.
C22_EmptySequenceRejected ==
  (fsa_type \in {"asg", "ctc"} /\ lemma_orig = <<>> /\ pc \in {"done", "error"}) =>
     pc = "error"

\* the stages of an HMM run of depth d, in order, as the pc behind each
\* stage (d = 1 .. 6)
hmm_stage_pcs(d) ==
  SubSeq(<<"hmm_lemma", "hmm_phon", "hmm_tri", "hmm_allo", "hmm_loops", "hmm_tied">>, 1, d)

\* an edge of es that is not epsilon and whose canonical string table lacks
lacks_tied_id(es, table) ==
  \E k \in 1..Len(es) :
     Label(es[k]) # _EPS /\ canonical_string(Label(es[k]), Pos(es[k])) \notin DOMAIN table

\* C23: an HMM run either completes every stage up to its depth or ends with
\* an error.  A word that the lexicon does not hold ends a run of depth >= 2
\* with an error before any phoneme edge is made; a canonical string of an
\* edge other than epsilon that the state-tying table does not hold ends a
\* run of depth 6 with an error; a run that reports completion has its whole
\* graph converted.
C23_HmmCompletesOrAborts ==
  (fsa_type = "hmm") =>
     /\ (pc = "done") =>
          /\ Len(history) = depth + 1
          /\ \A i \in 1..depth : history[i + 1].pc = hmm_stage_pcs(depth)[i]
          /\ depth = 6 =>
               /\ Len(edges) = Len(history[depth].edges)
               /\ \A k \in 1..Len(edges) : Len(edges[k]) = 4
     /\ (depth >= 2 /\ pc \notin {"run", "hmm_lemma"}
           /\ \E i \in 1..Len(lemma_orig) : lemma_orig[i] \notin DOMAIN lexicon) =>
          /\ pc = "error"
          /\ before.pc = "hmm_lemma"
          /\ edges = before.edges
          /\ \A k \in 1..Len(edges) : Label(edges[k]) \in {_SIL, _EPS}
                                        \cup {PyStr(lemma_orig[i]) : i \in 1..Len(lemma_orig)}
     /\ (pc \in {"hmm_tied", "error"} /\ before.pc = "hmm_loops") =>
          (pc = "error" <=> lacks_tied_id(before.edges, state_tying))

\* a run that state tying ended after it had converted some of the edges
C23_Witness ==
  /\ fsa_type = "hmm" /\ pc = "error" /\ before.pc = "hmm_loops"
  /\ Len(edges) > 0 /\ Len(edges) < Len(before.edges)
  /\ lacks_tied_id(before.edges, state_tying)

\* C24: node renumbering terminates on every edge list without cycles and
\* self-loops: the scan reaches the end of the list and the call returns.
C24_SortTerminates == <>(pc = "sorted")

\* a call that exchanged nodes and returned
C24_Witness ==
  pc = "sorted" /\ before.pc = "sort" /\ edges # before.edges
    /\ Len(edges) = SortMaxEdges

\* C25: node renumbering only exchanges node numbers: for any edge list,
\* self-loops included, the result is the list with one permutation of the
\* node numbers applied to both ends of every edge; the number and order of
\* the edges, the labels, the weights and the position tags are unchanged.
C25_SortOnlyRenamesNodes ==
  (pc = "sorted" /\ before.pc = "sort") => is_renaming(before.edges, edges)

\* the edges of es that lead from state s to another state
leaving(es, s) == {k \in 1..Len(es) : From(es[k]) = s /\ To(es[k]) # s}

\* C26 as stated: in a completed CTC graph no edge other than its self-loop
\* leaves a state of the old final-state set, so no path leads from an old
\* final state to the new final state.
C26_OldFinalStatesAreDeadEnds ==
  (fsa_type = "ctc" /\ pc = "done" /\ Len(lemma_orig) >= 1) =>
     \A i \in 1..Len(final_states) : leaving(edges, final_states[i]) = {}

\* C26, amended: the merge leaves the original edges in place, but an old
\* final state is no dead end: its self-loop ends at it and is copied too, so
\* exactly one edge leaves it for another state, the edge to the new final
\* state num_states - 1 with the label of its self-loop and weight 1.
C26_OldFinalStatesLeadToNewFinal ==
  (fsa_type = "ctc" /\ pc = "done" /\ Len(lemma_orig) >= 1) =>
     /\ SubSeq(edges, 1, Len(before.edges)) = before.edges
     /\ \A i \in 1..Len(final_states) :
          LET f == final_states[i]
          IN  /\ f < num_states - 1
              /\ Cardinality(leaving(edges, f)) = 1
              /\ \A k \in leaving(edges, f) :
                   /\ k > Len(before.edges)
                   /\ To(edges[k]) = num_states - 1
                   /\ Weight(edges[k]) = 1
                   /\ \E j \in 1..Len(before.edges) :
                        /\ From(edges[j]) = f /\ To(edges[j]) = f
                        /\ Label(edges[j]) = Label(edges[k])

C26_Witness ==
  fsa_type = "ctc" /\ pc = "done" /\ lemma_orig = <<"a", "b">>
    /\ Len(final_states) = 2 /\ Len(edges) > Len(before.edges)

\* both ends of every edge of es are states of 0 .. ns-1
ends_in_range(es, ns) ==
  \A k \in 1..Len(es) :
     /\ 0 <= From(es[k]) /\ From(es[k]) < ns
     /\ 0 <= To(es[k]) /\ To(es[k]) < ns

\* C27: after every stage of a builder run that does not abort (ASG, CTC, HMM
\* at every depth and every allo_num_states) both ends of every edge are
\* states of 0 .. num_states-1.
C27_EdgeEndsAreStates ==
  (pc \notin {"run", "error"}) => ends_in_range(edges, num_states)

\* the allophone-state stage has run with an allo_num_states other than 3 and
\* an edge uses a state the stage has added
C27_Witness ==
  /\ fsa_type = "hmm" /\ pc = "hmm_allo" /\ allo_num_states # AlloNumStatesDefault
  /\ num_states > before.num_states
  /\ \E k \in 1..Len(edges) :
       From(edges[k]) >= before.num_states \/ To(edges[k]) >= before.num_states

\* A reading is <<state, last label, labels>>: a path from state 0 ends in
\* state, its last edge has the label last label (None for the empty path),
\* and labels is its label string with consecutive equal labels merged and
\* the blanks then deleted. labels is not extended beyond max_len + 1 labels.
reading_after(r, e, max_len) ==
  <<To(e),
    Label(e),
    IF Label(e) = r[2] \/ Label(e) = label_blank \/ Len(r[3]) > max_len
      THEN r[3] ELSE Append(r[3], Label(e))>>

readings_step(rs, es, max_len) ==
  rs \cup UNION {{reading_after(r, es[k], max_len) :
                    k \in {j \in 1..Len(es) : From(es[j]) = r[1]}} : r \in rs}

RECURSIVE readings_closure(_, _, _)
readings_closure(rs, es, max_len) ==
  IF readings_step(rs, es, max_len) = rs THEN rs
  ELSE readings_closure(readings_step(rs, es, max_len), es, max_len)

\* the readings of all paths of es that start in state 0
path_readings(es, max_len) == readings_closure({<<0, None, <<>> >>}, es, max_len)

\* the merged and blank-free label strings of the paths from state 0 to s
readings_at(es, s, max_len) ==
  {r[3] : r \in {q \in path_readings(es, max_len) : q[1] = s}}

\* a CTC run has completed on a non-empty sequence without the label '*'
ctc_completed ==
  /\ fsa_type = "ctc" /\ pc = "done" /\ Len(lemma_orig) >= 1
  /\ \A k \in 1..Len(lemma_orig) : lemma_orig[k] # "*"

\* C28: in the completed CTC graph of a non-empty label sequence, the label
\* string of every path from state 0 to the final state num_states-1 gives
\* the input label sequence once consecutive equal labels are merged and the
\* blanks are deleted.
C28_CtcPathsReadTheInput ==
  ctc_completed => readings_at(edges, num_states - 1, Len(lemma)) \subseteq {lemma}

\* a sequence with a repeated label and one with distinct neighbours, the
\* final state reached by a path
C28_Witness ==
  /\ ctc_completed /\ lemma_orig = <<"a", "a", "b">>
  /\ readings_at(edges, num_states - 1, Len(lemma)) = {lemma}

\* fs with consecutive equal labels merged and the blanks then deleted
RECURSIVE merge_and_delete(_, _, _, _)
merge_and_delete(out, last, fs, k) ==
  IF k > Len(fs) THEN out
  ELSE merge_and_delete(
         IF fs[k] = last \/ fs[k] = label_blank THEN out ELSE Append(out, fs[k]),
         fs[k], fs, k + 1)

\* the states in which a path from a state of ss with the labels fs[k..] ends
RECURSIVE states_after(_, _, _, _)
states_after(ss, es, fs, k) ==
  IF k > Len(fs) THEN ss
  ELSE states_after({To(es[j]) : j \in {i \in 1..Len(es) :
                                         From(es[i]) \in ss /\ Label(es[i]) = fs[k]}},
                    es, fs, k + 1)

\* the frame-label strings of at most MaxFrames frames that give lem
frame_strings(lem) ==
  {fs \in UNION {[1..n -> {lem[k] : k \in 1..Len(lem)} \cup {label_blank}] :
                   n \in 1..MaxFrames} :
     merge_and_delete(<<>>, None, fs, 1) = lem}

\* C29: every frame-label string of bounded length that gives the input
\* sequence once consecutive equal labels are merged and the blanks are
\* deleted is the label string of a path from state 0 to the final state of
\* the completed CTC graph.
C29_CtcAcceptsEveryFrameString ==
  ctc_completed =>
     \A fs \in frame_strings(lemma) :
        (num_states - 1) \in states_after({0}, edges, fs, 1)

\* the places in the output of the allophone-state stage of the sub-edges made
\* of the edge old_es[i]: the stage appends its output edge by edge, a silence
\* or epsilon edge as it is and the sub-edges of any other edge in a row
\* (none when A is 1), and the renumbering keeps the order
allo_sub_edges(old_es, i, A) ==
  LET made == IF A > 1 THEN A ELSE 0
      first == Cardinality({j \in 1..(i - 1) : IsSilOrEps(old_es[j])})
                 + made * Cardinality({j \in 1..(i - 1) : ~IsSilOrEps(old_es[j])})
  IN  (first + 1)..(first + made)

RECURSIVE weight_sum(_, _)
weight_sum(es, ks) ==
  IF ks = {} THEN 0
  ELSE Weight(es[Min(ks)]) + weight_sum(es, ks \ {Min(ks)})

\* C30: the allophone-state stage keeps the path weight: the weights of the
\* sub-edges made of a phoneme edge add up to the weight of that edge, so a
\* pronunciation score is counted once.
C30_AllophoneStageKeepsWeight ==
  (fsa_type = "hmm" /\ pc = "hmm_allo") =>
     \A i \in expanded_edges(before.edges) :
        weight_sum(edges, allo_sub_edges(before.edges, i, allo_num_states))
          = Weight(before.edges[i])

====
